---- MODULE Spec2Model ----
(***************************************************************************)
(* A model of lib/models/ngp.py: contract_to_unisphere and the             *)
(* NGPradianceField module (query_density, _query_rgb, forward).           *)
(*                                                                         *)
(* Tensors hold torch.float32 elements.  An element is modelled bit for    *)
(* bit as an IEEE-754 binary32 value: a record [c, s, m, e] that is a NaN  *)
(* (c = "nan"), an infinity (c = "inf", sign s) or the finite number       *)
(* (-1)^s * m * 2^e (c = "fin") with 0 <= m < 2^24 and -149 <= e <= 104,   *)
(* m >= 2^23 unless e = -149.  Every arithmetic operator rounds to nearest *)
(* even, overflows to infinity and propagates NaN as the hardware does.    *)
(***************************************************************************)
EXTENDS Integers, Sequences, FiniteSets, TLC

\* ---------------------------------------------------------------- float32

\* binary32: 24 bits of precision; the least subnormal is 2^-149 and the
\* greatest finite value is (2^24 - 1) * 2^104.
FPrec == 24
FEMin == 0 - 149
FEMax == 104

Pow2(n) == 2 ^ n

\* The number of bits of m >= 0.
RECURSIVE BitLen(_)
BitLen(m) ==
    IF m = 0 THEN 0
    ELSE IF m >= 16777216 THEN 24 + BitLen(m \div 16777216)
    ELSE IF m >= 8388608 THEN 24
    ELSE IF m >= 4096 THEN 12 + BitLen(m \div 4096)
    ELSE 1 + BitLen(m \div 2)

FNaN == [c |-> "nan", s |-> 0, m |-> 0, e |-> 0]
FInf(s) == [c |-> "inf", s |-> s, m |-> 0, e |-> 0]
FZero(s) == [c |-> "fin", s |-> s, m |-> 0, e |-> FEMin]

IsNaN(a) == a.c = "nan"
IsInf(a) == a.c = "inf"
IsFin(a) == a.c = "fin"
IsZero(a) == a.c = "fin" /\ a.m = 0

\* A finite value, or the infinity it overflows to.
Pack(s, m, e) ==
    IF e > FEMax THEN FInf(s) ELSE [c |-> "fin", s |-> s, m |-> m, e |-> e]

\* q rounded up or not, given the discarded remainder r against half a unit:
\* to nearest, ties to even; a carry out of 24 bits renormalises.
RoundNearestEven(s, q, r, half, e) ==
    IF r > half \/ (r = half /\ q % 2 = 1)
    THEN (IF q + 1 = Pow2(FPrec) THEN Pack(s, Pow2(FPrec - 1), e + 1)
          ELSE Pack(s, q + 1, e))
    ELSE Pack(s, q, e)

\* m * 2^e with its k lowest bits rounded away (k > 0) or -k zero bits
\* appended (k <= 0).
RoundShift(s, m, e, k) ==
    IF k <= 0 THEN Pack(s, m * Pow2(0 - k), e + k)
    ELSE IF k > 30 THEN FZero(s)
    ELSE RoundNearestEven(s, m \div Pow2(k), m % Pow2(k), Pow2(k - 1), e + k)

\* The bits to round away from a mantissa of bl bits at exponent e: down to
\* 24 bits, and further for a subnormal result.
ShiftFor(bl, e) == IF e + bl - FPrec < FEMin THEN FEMin - e ELSE bl - FPrec

\* Round the exact value (-1)^s * m * 2^e (0 <= m < 2^30) to binary32, to
\* nearest, ties to even.  A set lowest bit of m may stand for discarded lower
\* bits ("jamming"), provided m carries at least two bits below the result.
RoundPack(s, m, e) ==
    IF m = 0 THEN FZero(s) ELSE RoundShift(s, m, e, ShiftFor(BitLen(m), e))

\* A nonzero finite value with its mantissa shifted up to 24 bits (the
\* exponent of a subnormal goes below FEMin).
NormM(a) == a.m * Pow2(FPrec - BitLen(a.m))
NormE(a) == a.e - (FPrec - BitLen(a.m))

\* top with a nonzero discarded rest jammed into its lowest bit.
Jam(top, rest) == IF rest # 0 /\ top % 2 = 0 THEN top + 1 ELSE top

\* m shifted right by d bits, the lost bits jammed.
ShiftRightJam(m, d) ==
    IF d = 0 THEN m
    ELSE IF d > 30 THEN (IF m = 0 THEN 0 ELSE 1)
    ELSE Jam(m \div Pow2(d), m % Pow2(d))

\* |a| < |b| for finite a, b.
MagLess(a, b) == a.e < b.e \/ (a.e = b.e /\ a.m < b.m)

FNeg(a) == IF IsNaN(a) THEN a ELSE [a EXCEPT !.s = 1 - a.s]

\* x + y for finite |x| >= |y|, my the mantissa of y aligned to that of x
\* with three guard bits.
AddAligned(x, y, my) ==
    IF x.s # y.s /\ x.m * 8 = my THEN FZero(0)
    ELSE RoundPack(x.s, x.m * 8 + (IF x.s = y.s THEN my ELSE 0 - my), x.e - 3)

AddOrdered(x, y) == AddAligned(x, y, ShiftRightJam(y.m * 8, x.e - y.e))

\* torch float32 addition.
FAdd(a, b) ==
    IF IsNaN(a) \/ IsNaN(b) THEN FNaN
    ELSE IF IsInf(a) /\ IsInf(b) THEN (IF a.s = b.s THEN a ELSE FNaN)
    ELSE IF IsInf(a) THEN a
    ELSE IF IsInf(b) THEN b
    ELSE IF IsZero(a) /\ IsZero(b) THEN (IF a.s = b.s THEN a ELSE FZero(0))
    ELSE IF MagLess(a, b) THEN AddOrdered(b, a)
    ELSE AddOrdered(a, b)

\* torch float32 subtraction.
FSub(a, b) == FAdd(a, FNeg(b))

\* The 48-bit product of two 24-bit mantissas, as <<high 24 bits, low 24 bits>>.
MulWide(a, b) ==
    LET a1 == a \div 4096
        a0 == a % 4096
        b1 == b \div 4096
        b0 == b % 4096
        cr == a1 * b0 + a0 * b1
        lf == (cr % 4096) * 4096 + a0 * b0
    IN  <<a1 * b1 + (cr \div 4096) + (lf \div Pow2(24)), lf % Pow2(24)>>

\* The product p = <<high, low>> at exponent e, rounded.
MulPack(s, p, e) ==
    RoundPack(s, Jam(p[1] * 64 + (p[2] \div Pow2(18)), p[2] % Pow2(18)), e + 18)

\* torch float32 multiplication.
FMul(a, b) ==
    IF IsNaN(a) \/ IsNaN(b) THEN FNaN
    ELSE IF (IsInf(a) /\ IsZero(b)) \/ (IsZero(a) /\ IsInf(b)) THEN FNaN
    ELSE IF IsInf(a) \/ IsInf(b) THEN FInf((a.s + b.s) % 2)
    ELSE IF IsZero(a) \/ IsZero(b) THEN FZero((a.s + b.s) % 2)
    ELSE MulPack((a.s + b.s) % 2, MulWide(NormM(a), NormM(b)), NormE(a) + NormE(b))

\* The 24-bit mantissa mc shifted up by r bits (0 <= r < 24), as <<high limb,
\* low limb>> of 24 bits each.
ShiftLimbs(mc, r) == <<mc \div Pow2(24 - r), (mc % Pow2(24 - r)) * Pow2(r)>>

\* The limbs at positions -2 .. 3 (24 bits apiece, lowest first) of the
\* product p = <<high, low>>, which lies at positions 1 and 0, with the
\* limbs c added at positions q + 1 and q; carries not yet propagated.
AddLimbs(p, c, q) ==
    [k \in 1..6 |-> (IF k = 3 THEN p[2] ELSE IF k = 4 THEN p[1] ELSE 0)
                  + (IF k = q + 3 THEN c[2] ELSE IF k = q + 4 THEN c[1] ELSE 0)]

\* The limbs l with the carry propagated upwards from limb k.
RECURSIVE Carry(_, _, _)
Carry(l, k, carry) ==
    IF k > Len(l) THEN <<>>
    ELSE <<(l[k] + carry) % Pow2(24)>> \o Carry(l, k + 1, (l[k] + carry) \div Pow2(24))

\* The highest nonzero limb of l, at k or below.
RECURSIVE TopLimb(_, _)
TopLimb(l, k) == IF l[k] # 0 THEN k ELSE TopLimb(l, k - 1)

\* Whether a limb of l below k is nonzero.
LowerLimbs(l, k) == IF \E j \in 1..(k - 1) : l[j] # 0 THEN 1 ELSE 0

\* The limbs l (limb k at 2^(24 * (k - 3)) times 2^e), whose highest nonzero
\* limb is t >= 3, rounded: the 29 highest bits, the rest jammed; sh is the
\* shift that brings limb t up to 29 bits.
PackLimbs(l, t, sh, e) ==
    IF sh <= 24
    THEN RoundPack(0, Jam(l[t] * Pow2(sh) + (l[t - 1] \div Pow2(24 - sh)),
                          (l[t - 1] % Pow2(24 - sh)) + LowerLimbs(l, t - 1)),
                   e + 24 * (t - 3) - sh)
    ELSE RoundPack(0, Jam(l[t] * Pow2(sh) + l[t - 1] * Pow2(sh - 24)
                              + (l[t - 2] \div Pow2(48 - sh)),
                          (l[t - 2] % Pow2(48 - sh)) + LowerLimbs(l, t - 2)),
                   e + 24 * (t - 3) - sh)

TopPack(l, t, e) == PackLimbs(l, t, 29 - BitLen(l[t]), e)

RoundLimbs(l, e) == TopPack(l, TopLimb(l, Len(l)), e)

\* p * 2^e + mc * 2^(e + d) rounded once, for a product p = <<high, low>> of
\* two 24-bit mantissas and a 24-bit mantissa mc.  An addend wholly above
\* or wholly below the bits that decide the rounding leaves only a jammed
\* bit; otherwise the sum is made exactly, in limbs.
SumPack(p, e, mc, d) ==
    IF d >= 50 THEN RoundPack(0, mc * 8 + 1, e + d - 3)
    ELSE IF d <= 0 - 27 THEN RoundPack(0, Jam(p[1] * 32 + (p[2] \div Pow2(19)), 1), e + 19)
    ELSE RoundLimbs(Carry(AddLimbs(p, ShiftLimbs(mc, (d + 48) % 24), ((d + 48) \div 24) - 2),
                          1, 0),
                    e)

\* fma(a, a, c) for c >= 0: a * a + c with a single rounding, the step of a
\* fused sum of squares.
FSquareAdd(a, c) ==
    IF IsNaN(a) \/ IsNaN(c) THEN FNaN
    ELSE IF IsInf(a) \/ IsInf(c) THEN FInf(0)
    ELSE IF IsZero(a) THEN c
    ELSE IF IsZero(c) THEN FMul(a, a)
    ELSE SumPack(MulWide(NormM(a), NormM(a)), 2 * NormE(a), NormM(c), NormE(c) - 2 * NormE(a))

\* Seven more quotient bits of r / d by long division, qr = <<quotient so
\* far, remainder r < d>>, d < 2^24.
LongDiv(qr, d) == <<qr[1] * 128 + ((qr[2] * 128) \div d), (qr[2] * 128) % d>>

\* The quotient qr = <<quotient, remainder>> at exponent e, rounded.
DivPack(s, qr, e) == RoundPack(s, Jam(qr[1], qr[2]), e - 28)

\* ma / mb to 28 quotient bits below the binary point, for 24-bit mantissas.
DivNorm(s, ma, mb, e) ==
    DivPack(s, LongDiv(LongDiv(LongDiv(LongDiv(<<ma \div mb, ma % mb>>, mb), mb), mb), mb), e)

\* torch float32 division.
FDiv(a, b) ==
    IF IsNaN(a) \/ IsNaN(b) THEN FNaN
    ELSE IF (IsInf(a) /\ IsInf(b)) \/ (IsZero(a) /\ IsZero(b)) THEN FNaN
    ELSE IF IsInf(a) \/ IsZero(b) THEN FInf((a.s + b.s) % 2)
    ELSE IF IsInf(b) \/ IsZero(a) THEN FZero((a.s + b.s) % 2)
    ELSE DivNorm((a.s + b.s) % 2, NormM(a), NormM(b), NormE(a) - NormE(b))

\* The integer square root of n < 2^26, bit b downwards.
RECURSIVE ISqrt(_, _, _)
ISqrt(n, b, res) ==
    IF b < 0 THEN res
    ELSE IF (res + Pow2(b)) * (res + Pow2(b)) <= n THEN ISqrt(n, b - 1, res + Pow2(b))
    ELSE ISqrt(n, b - 1, res)

\* n more root bits of a radicand extended by zero bits: <<root, remainder>>.
RECURSIVE SqrtMore(_, _, _)
SqrtMore(res, rem, n) ==
    IF n = 0 THEN <<res, rem>>
    ELSE IF 4 * rem >= 4 * res + 1
         THEN SqrtMore(2 * res + 1, 4 * rem - (4 * res + 1), n - 1)
         ELSE SqrtMore(2 * res, 4 * rem, n - 1)

\* The root rr = <<root, remainder>> of m * 2^28 at the even exponent e.
SqrtPack(rr, e) == RoundPack(0, Jam(rr[1], rr[2]), (e - 28) \div 2)

SqrtRoot(m, e, r0) == SqrtPack(SqrtMore(r0, m - r0 * r0, 14), e)

\* The square root of m * 2^e, e even, 2^23 <= m < 2^25.
SqrtEven(m, e) == SqrtRoot(m, e, ISqrt(m, 12, 0))

\* torch float32 square root.
FSqrt(a) ==
    IF IsNaN(a) THEN FNaN
    ELSE IF IsZero(a) THEN a
    ELSE IF a.s = 1 THEN FNaN
    ELSE IF IsInf(a) THEN a
    ELSE SqrtEven(NormM(a) * (1 + (NormE(a) % 2)), NormE(a) - (NormE(a) % 2))

\* torch float32 comparisons: false when an operand is NaN; -0 equals +0.
FLt(a, b) ==
    IF IsNaN(a) \/ IsNaN(b) THEN FALSE
    ELSE IF IsZero(a) /\ IsZero(b) THEN FALSE
    ELSE IF a.s # b.s THEN a.s = 1
    ELSE IF IsInf(a) THEN a.s = 1 /\ ~IsInf(b)
    ELSE IF IsInf(b) THEN b.s = 0
    ELSE IF a.s = 0 THEN MagLess(a, b) ELSE MagLess(b, a)

FGt(a, b) == FLt(b, a)
FEq(a, b) == ~IsNaN(a) /\ ~IsNaN(b) /\ ~FLt(a, b) /\ ~FLt(b, a)
FLe(a, b) == FLt(a, b) \/ FEq(a, b)
FGe(a, b) == FLe(b, a)

\* The float32 of a Python int or literal n (|n| < 2^24), and of n / d.
F(n) == RoundPack(IF n < 0 THEN 1 ELSE 0, IF n < 0 THEN 0 - n ELSE n, 0)
FRat(n, d) == FDiv(F(n), F(d))

\* The literals of the source: 0.0, 1, 1.0, 2, 2.0, 4 and 0.5.
Zero == F(0)
One  == F(1)
Two  == F(2)
Four == F(4)
Half == FRat(1, 2)

\* ------------------------------------------------------------ tensor rows

\* num_dim: a point, a direction and each half of the aabb have three
\* components.
num_dim == 3
\* geo_feat_dim: the width of the geometry feature mlp_base hands to mlp_head.
geo_feat_dim == 15
\* The output width of either direction encoding (spherical harmonics of
\* degree 4: 4 * 4; hash grid: n_levels // 2 levels of 2 features).
enc_dim == 16

\* Python's None where a tensor may stand: a tensor has at least one row.
None == <<>>

\* The tensor whose elements are those of the function f, each computed once.
Tensor(f) == f \o <<>>

aabb_min(aabb) == SubSeq(aabb, 1, num_dim)
aabb_max(aabb) == SubSeq(aabb, num_dim + 1, 2 * num_dim)

\* (x - aabb_min) / (aabb_max - aabb_min), elementwise over one row.
normalize(x, aabb) ==
    Tensor([i \in DOMAIN x |->
        FDiv(FSub(x[i], aabb_min(aabb)[i]), FSub(aabb_max(aabb)[i], aabb_min(aabb)[i]))])

\* The reductions a build of torch may compile x.norm to: the squares
\* summed in order, or in two strided lanes (components 0 and 2, then
\* component 1), each square rounded before it is added or added with a
\* fused multiply-add.
NormKernels == {"sequential", "fused", "strided", "strided_fused"}

\* x.norm(dim=-1): the square root of the sum of the squares, in float32,
\* as the kernel of the build computes it; the kernels differ in the last
\* bit.
norm(x, kernel) ==
    CASE kernel = "sequential" ->
           FSqrt(FAdd(FAdd(FMul(x[1], x[1]), FMul(x[2], x[2])), FMul(x[3], x[3])))
      [] kernel = "fused" ->
           FSqrt(FSquareAdd(x[3], FSquareAdd(x[2], FSquareAdd(x[1], Zero))))
      [] kernel = "strided" ->
           FSqrt(FAdd(FAdd(FMul(x[1], x[1]), FMul(x[3], x[3])), FMul(x[2], x[2])))
      [] kernel = "strided_fused" ->
           FSqrt(FAdd(FSquareAdd(x[3], FSquareAdd(x[1], Zero)), FSquareAdd(x[2], Zero)))

\* x * 2 - 1: the aabb is at [-1, 1].
to_symmetric(x) == Tensor([i \in DOMAIN x |-> FSub(FMul(x[i], Two), One)])

\* x[mask] = (2 - 1 / mag[mask]) * (x[mask] / mag[mask]), mask = mag > 1.
contract_masked(x, mag) ==
    IF FGt(mag, One)
    THEN Tensor([i \in DOMAIN x |->
             FMul(FSub(Two, FDiv(One, mag)), FDiv(x[i], mag))])
    ELSE x

\* x / 4 + 0.5
to_unit(x) == Tensor([i \in DOMAIN x |-> FAdd(FDiv(x[i], Four), Half)])

\* The contraction of a row x already scaled to the aabb at [-1, 1].
contract_symmetric(x, kernel) == to_unit(contract_masked(x, norm(x, kernel)))

\* contract_to_unisphere(x, aabb) with derivative=False, for one row x,
\* under a build of torch with the given norm kernel.
contract_to_unisphere(x, aabb, kernel) ==
    contract_symmetric(to_symmetric(normalize(x, aabb)), kernel)

ExpOverflows == F(89)
ExpUnderflows == F(0 - 104)

\* _TruncExp.forward: torch.exp in float32.  exp overflows to +inf from
\* 88.73 on and underflows to 0 below -103.98; exp(0) = 1.  The networks of
\* this model produce no other argument.
trunc_exp(x) ==
    CASE IsNaN(x) -> FNaN
      [] ~IsNaN(x) /\ FGe(x, ExpOverflows) -> FInf(0)
      [] ~IsNaN(x) /\ FLe(x, ExpUnderflows) -> FZero(0)
      [] IsZero(x) -> One

\* The default density_activation: lambda x: trunc_exp(x - 1).
density_activation(x) == trunc_exp(FSub(x, One))

\* ------------------------------------------------- the tiny-cuda-nn modules
\* mlp_base, mlp_head and direction_encoding are networks of the external
\* tiny-cuda-nn library: each is a deterministic function of its input row,
\* fixed by the trained weights.  The model draws the weights from
\* 1..NumWeights and lets them select the function.

NumWeights == 2

HashF(a) ==
    (a.m % 251) + 3 * (a.e + 200) + 5 * a.s
        + (CASE a.c = "fin" -> 0 [] a.c = "inf" -> 7 [] a.c = "nan" -> 11)

RECURSIVE HashVec(_, _)
HashVec(v, i) == IF i > Len(v) THEN 0 ELSE i * HashF(v[i]) + HashVec(v, i + 1)

\* What the first output channel of mlp_base (the density before its
\* activation) may be, what a feature channel may be, and what a channel of
\* the sigmoid output of mlp_head may be.
DensityOuts == <<One, F(90), F(0 - 200)>>
FeatureOuts == <<Zero, One, F(0 - 2)>>
SigmoidOuts == <<Zero, Half, One>>

\* self.mlp_base(x): 1 + geo_feat_dim output channels.
mlp_base(weights, x) ==
    LET k == HashVec(x, 1)
    IN  Tensor([j \in 1..(1 + geo_feat_dim) |->
            IF j = 1
            THEN DensityOuts[((k + weights) % Len(DensityOuts)) + 1]
            ELSE FeatureOuts[((k + weights * j) % Len(FeatureOuts)) + 1]])

\* self.direction_encoding(dir): enc_dim output channels.
direction_encoding(weights, d) ==
    LET k == HashVec(d, 1)
    IN  Tensor([j \in 1..enc_dim |->
            FeatureOuts[((k * j + weights) % Len(FeatureOuts)) + 1]])

\* self.mlp_head(h): three channels behind a sigmoid.
mlp_head(weights, h) ==
    LET k == HashVec(h, 1)
    IN  Tensor([j \in 1..3 |-> SigmoidOuts[((k + weights + j) % Len(SigmoidOuts)) + 1]])

\* ------------------------------------------------------- NGPradianceField

\* __init__ succeeds unless use_viewdirs is set with a cond_type that builds
\* no direction_encoding: mlp_head then reads self.direction_encoding.
constructs(use_viewdirs, cond_type) ==
    use_viewdirs => cond_type \in {"neck_pose", "posed_verts"}

\* selector = ((x > 0.0) & (x < 1.0)).all(dim=-1), for one row.
selector(x) == \A i \in 1..num_dim : FGt(x[i], Zero) /\ FLt(x[i], One)

\* The density and the feature of one row from the output of mlp_base:
\* density_activation(density_before_activation) * selector.
split_density(sel, net) ==
    [base_mlp_out |-> SubSeq(net, 2, 1 + geo_feat_dim),
     density      |-> FMul(density_activation(net[1]), IF sel THEN One ELSE Zero)]

\* query_density from the scaled row on.
density_of_scaled(model, x) == split_density(selector(x), mlp_base(model.weights, x))

\* query_density(x, return_feat=True) for one row x:
\* [density, base_mlp_out].
query_density_row(model, x) ==
    density_of_scaled(model, IF model.unbounded
                             THEN contract_to_unisphere(x, model.aabb, model.kernel)
                             ELSE normalize(x, model.aabb))

\* The two tensors query_density returns, from its per-row results.
unzip_density(rows) ==
    [density      |-> Tensor([r \in 1..Len(rows) |-> rows[r].density]),
     base_mlp_out |-> Tensor([r \in 1..Len(rows) |-> rows[r].base_mlp_out])]

\* query_density(x, return_feat=True) over the rows of x.
query_density(model, x) ==
    unzip_density(Tensor([r \in 1..Len(x) |-> query_density_row(model, x[r])]))

\* normalize_dir with the neck_pose scaling read as dir + 1.0 / 2.0.
normalize_dir_unparenthesized(model, d) ==
    IF model.cond_type = "neck_pose"
    THEN Tensor([i \in 1..num_dim |-> FAdd(d[i], FDiv(One, Two))])
    ELSE IF model.cond_type = "posed_verts"
    THEN normalize(d, model.aabb)
    ELSE d

\* The scaling of one row of dir at the head of _query_rgb.
normalize_dir(model, d) ==
    IF model.cond_type = "neck_pose"
    THEN Tensor([i \in 1..num_dim |-> FDiv(FAdd(d[i], One), Two)])
    ELSE IF model.cond_type = "posed_verts"
    THEN normalize(d, model.aabb)
    ELSE d

\* The rgb of _query_rgb under use_viewdirs, from the scaled dir on.
rgb_of_scaled(model, dn, embedding) ==
    [status |-> "returned",
     rgb    |-> Tensor([r \in 1..Len(embedding) |->
                    mlp_head(model.weights,
                             direction_encoding(model.weights, dn[r]) \o embedding[r])]),
     enc_in |-> dn,
     n_head |-> Len(embedding)]

\* _query_rgb(dir, embedding): [status, rgb, enc_in, n_head], enc_in the
\* tensor passed to direction_encoding, n_head the rows mlp_head evaluated.
\* Under use_viewdirs a dir of None raises at its first arithmetic.
_query_rgb(model, dir, embedding) ==
    IF model.use_viewdirs
    THEN IF dir = None
         THEN [status |-> "TypeError", rgb |-> None, enc_in |-> None, n_head |-> 0]
         ELSE rgb_of_scaled(model,
                            Tensor([r \in 1..Len(dir) |-> normalize_dir(model, dir[r])]),
                            embedding)
    ELSE [status |-> "returned",
          rgb    |-> Tensor([r \in 1..Len(embedding) |->
                         mlp_head(model.weights, embedding[r])]),
          enc_in |-> None,
          n_head |-> Len(embedding)]

\* tensor.shape of a [N, num_dim] tensor.
shape(t) == <<Len(t), num_dim>>

\* What forward hands back once both queries have run.
forward_result(qd, qr) ==
    [n_base    |-> Len(qd.density),
     embedding |-> qd.base_mlp_out,
     status    |-> qr.status,
     rgb       |-> qr.rgb,
     density   |-> IF qr.status = "returned" THEN qd.density ELSE None,
     enc_in    |-> qr.enc_in,
     n_head    |-> qr.n_head]

\* Either branch of forward after the assertion: query_density, then
\* _query_rgb on its feature.
forward_queries(model, directions, qd) ==
    forward_result(qd, _query_rgb(model, directions, qd.base_mlp_out))

\* forward with the density queried at the directions when they are given.
forward_density_of_directions(model, positions, directions) ==
    IF model.use_viewdirs /\ directions # None /\ shape(positions) # shape(directions)
    THEN [status |-> "AssertionError", rgb |-> None, density |-> None,
          embedding |-> None, enc_in |-> None, n_base |-> 0, n_head |-> 0]
    ELSE forward_queries(model, directions,
                         query_density(model, IF directions = None
                                              THEN positions ELSE directions))

\* forward with the shapes compared only after query_density has run.
forward_late_assert(model, positions, directions) ==
    IF model.use_viewdirs /\ directions # None /\ shape(positions) # shape(directions)
    THEN [status |-> "AssertionError", rgb |-> None, density |-> None,
          embedding |-> None, enc_in |-> None,
          n_base |-> Len(query_density(model, positions).density), n_head |-> 0]
    ELSE forward_queries(model, directions, query_density(model, positions))

\* forward(positions, directions): the outcome of one call.
forward(model, positions, directions) ==
    IF model.use_viewdirs /\ directions # None /\ shape(positions) # shape(directions)
    THEN [status |-> "AssertionError", rgb |-> None, density |-> None,
          embedding |-> None, enc_in |-> None, n_base |-> 0, n_head |-> 0]
    ELSE forward_queries(model, directions, query_density(model, positions))

\* ------------------------------------------------------------------ state

VARIABLES
    model,  \* the constructed NGPradianceField: its buffers and attributes,
            \* and the build of torch it runs on
    call,   \* the arguments of the latest forward call
    out,    \* its outcome: the tensors it returned or the exception it raised
    prev,   \* what the call before returned for the same positions
    arg,    \* the arguments of a direct contract_to_unisphere call, and the
            \* build of torch it runs on
    ret     \* what that call returned

vars == <<model, call, out, prev, arg, ret>>

\* The greatest number of rows of a tensor.
MaxBatch == 2

Point(a, b, c) == <<a, b, c>>

\* The unit cube, the cube [-1, 1]^3 and the box of query_density's
\* docstring (x in [-0.5, 0.5], y in [0.4, 0.7], z in [-0.5, 0.3]).
AabbUnit == <<Zero, Zero, Zero, One, One, One>>
AabbSym  == <<F(0 - 1), F(0 - 1), F(0 - 1), One, One, One>>
AabbDoc  == <<FRat(0 - 1, 2), FRat(2, 5), FRat(0 - 1, 2),
              FRat(1, 2), FRat(7, 10), FRat(3, 10)>>

\* 2^127, a finite float32.
FHuge == [c |-> "fin", s |-> 0, m |-> Pow2(FPrec - 1), e |-> FEMax]

\* Positions: strictly inside both boxes of the models; on a face of the
\* cube [-1, 1]^3; outside both.
Positions == {Point(Zero, Half, Zero), Point(One, Half, Half), Point(F(3), F(0 - 1), Zero)}

\* View directions: unit vectors.
Directions == {Point(Zero, Zero, One), Point(F(0 - 1), Zero, Zero)}

\* The tensors of 1..MaxBatch rows drawn from S.
Tensors(S) == UNION {[1..n -> S] : n \in 1..MaxBatch}

\* The constructor arguments (use_viewdirs, cond_type) __init__ accepts.
Constructible ==
    {k \in BOOLEAN \X {"none", "neck_pose", "posed_verts"} : constructs(k[1], k[2])}

\* The models after construction.  self.cond_type is assigned only under
\* use_viewdirs.  The aabb has a nonzero first entry, which the hash grid's
\* per_level_scale is computed from.  kernel is the norm of the build of
\* torch the model runs on; the builds are told apart only for the unbounded
\* models, which alone call norm.
Models ==
    {[aabb         |-> a,
      use_viewdirs |-> k[1],
      cond_type    |-> IF k[1] THEN k[2] ELSE "unset",
      unbounded    |-> b[1],
      kernel       |-> b[2],
      weights      |-> w] :
        a \in {AabbSym, AabbDoc}, k \in Constructible,
        b \in {<<FALSE, "sequential">>} \cup ({TRUE} \X NormKernels),
        w \in 1..NumWeights}

\* No call yet; a call whose body has not run; no comparable earlier call;
\* no direct call; no model.
NoCall == [positions |-> None, directions |-> None]
NoOut == [status |-> "none", rgb |-> None, density |-> None, embedding |-> None,
          enc_in |-> None, n_base |-> 0, n_head |-> 0]
Pending == [NoOut EXCEPT !.status = "pending"]
NoPrev == [valid |-> FALSE, density |-> None, embedding |-> None, rgb |-> None]
NoArg == [x |-> None, aabb |-> None, kernel |-> "sequential"]
NoModel == [aabb |-> None, use_viewdirs |-> FALSE, cond_type |-> "unset",
            unbounded |-> FALSE, kernel |-> "sequential", weights |-> 0]

Init ==
    /\ model \in Models
    /\ call = NoCall
    /\ out = NoOut
    /\ prev = NoPrev
    /\ arg = NoArg
    /\ ret = None

\* model(positions, directions) is called: forward is entered.
CallForward(positions, directions) ==
    /\ out.status = "none"
    /\ call' = [positions |-> positions, directions |-> directions]
    /\ out' = Pending
    /\ UNCHANGED <<model, prev, arg, ret>>

\* The body of forward runs to its return or to the exception it raises.
RunForward ==
    /\ out.status = "pending"
    /\ out' = forward(model, call.positions, call.directions)
    /\ UNCHANGED <<model, call, prev, arg, ret>>

\* After a call has returned, the model is called on the same positions with
\* other directions.  What the first call returned is kept for comparison
\* (its rgb only without use_viewdirs, where rgb takes no directions).
CallAgain(directions) ==
    /\ out.status = "returned"
    /\ directions # call.directions
    /\ call' = [call EXCEPT !.directions = directions]
    /\ out' = Pending
    /\ prev' = [valid     |-> TRUE,
                density   |-> out.density,
                embedding |-> out.embedding,
                rgb       |-> IF model.use_viewdirs THEN None ELSE out.rgb]
    /\ UNCHANGED <<model, arg, ret>>

Next ==
    \/ \E p \in Tensors(Positions), d \in Tensors(Directions) \cup {None} :
          CallForward(p, d)
    \/ RunForward
    \/ \E d \in Tensors(Directions) \cup {None} : CallAgain(d)

Spec == Init /\ [][Next]_vars

\* ------------------------------------ contract_to_unisphere called directly

CoordVals == {Zero, Half, One, F(0 - 1), F(3), FHuge}

InitContract ==
    /\ model = NoModel
    /\ call = NoCall
    /\ out = NoOut
    /\ prev = NoPrev
    /\ arg \in {[x |-> Point(a, b, c), aabb |-> bb, kernel |-> f] :
                   a \in CoordVals, b \in CoordVals, c \in CoordVals,
                   bb \in {AabbUnit, AabbSym, AabbDoc}, f \in NormKernels}
    /\ ret = None

Contract ==
    /\ arg # NoArg
    /\ ret = None
    /\ ret' = contract_to_unisphere(arg.x, arg.aabb, arg.kernel)
    /\ UNCHANGED <<model, call, out, prev, arg>>

NextContract == Contract

SpecContract == InitContract /\ [][NextContract]_vars

\* ------------------------------------------------------------- properties

\* v is a float in [lo, hi]; a NaN is in no interval.
InRange(v, lo, hi) == ~IsNaN(v) /\ FGe(v, lo) /\ FLe(v, hi)

\* Every component of the row x is in [0, 1].
RowInUnit(x) == \A i \in 1..num_dim : InRange(x[i], Zero, One)

\* The latest forward call has run to its end.
Done == out.status \notin {"none", "pending"}

\* C1: two forward calls on the same positions with different directions
\* return the same density and compute the same geometry feature; without
\* use_viewdirs they return the same rgb as well.
C1_DirectionsReachOnlyRgb ==
    (out.status = "returned" /\ prev.valid) =>
        /\ out.density = prev.density
        /\ out.embedding = prev.embedding
        /\ (~model.use_viewdirs => out.rgb = prev.rgb)

\* C1 witness: under use_viewdirs a second call with other directions on an
\* unbounded model has returned a density that is not zero everywhere.
C1_Witness ==
    /\ out.status = "returned"
    /\ prev.valid
    /\ model.use_viewdirs
    /\ model.unbounded
    /\ call.directions # None
    /\ \E r \in 1..Len(out.density) : ~IsZero(out.density[r])

\* C2 as stated: contract_to_unisphere maps every finite input into [0, 1],
\* rows of magnitude at most 1 (after scaling the aabb to [-1, 1]) affinely
\* into [0.25, 0.75].
C2_ContractInUnit ==
    ret # None =>
        /\ RowInUnit(ret)
        /\ ~FGt(norm(to_symmetric(normalize(arg.x, arg.aabb)), arg.kernel), One) =>
               \A i \in 1..num_dim : InRange(ret[i], FRat(1, 4), FRat(3, 4))

\* The direction rows whose components are all in [-1, 1].
DirInSymmetric(d) == \A i \in 1..num_dim : InRange(d[i], F(0 - 1), One)

\* The direction rows whose components are all within the model's aabb.
DirInAabb(d) ==
    \A i \in 1..num_dim : InRange(d[i], aabb_min(model.aabb)[i], aabb_max(model.aabb)[i])

\* C3 as stated: for either cond_type, directions with components in
\* [-1, 1] reach direction_encoding as values in [0, 1].
C3_EncoderInputInUnit ==
    (out.status = "returned" /\ model.use_viewdirs) =>
        \A r \in 1..Len(call.directions) :
            DirInSymmetric(call.directions[r]) => RowInUnit(out.enc_in[r])

\* C3 amended: under neck_pose, directions with components in [-1, 1] reach
\* direction_encoding as values in [0, 1]; under posed_verts, directions
\* with components within the aabb do.
C3_EncoderInputInUnitAmended ==
    (out.status = "returned" /\ model.use_viewdirs) =>
        \A r \in 1..Len(call.directions) :
            (IF model.cond_type = "neck_pose"
             THEN DirInSymmetric(call.directions[r])
             ELSE DirInAabb(call.directions[r])) => RowInUnit(out.enc_in[r])

\* C3 witness: a posed_verts model has encoded a direction within its aabb
\* with a component at the lower face.
C3_Witness ==
    /\ out.status = "returned"
    /\ model.use_viewdirs
    /\ model.cond_type = "posed_verts"
    /\ \E r \in 1..Len(call.directions) :
          /\ DirInAabb(call.directions[r])
          /\ \E i \in 1..num_dim : IsZero(out.enc_in[r][i])

\* C4: under use_viewdirs with directions given, forward raises the
\* assertion when the shapes differ, before mlp_base or mlp_head evaluate a
\* row, and returns rgb and density for every row when they are equal.
C4_ShapeAssertion ==
    (Done /\ model.use_viewdirs /\ call.directions # None) =>
        IF shape(call.positions) # shape(call.directions)
        THEN out.status = "AssertionError" /\ out.n_base = 0 /\ out.n_head = 0
        ELSE /\ out.status = "returned"
             /\ Len(out.rgb) = Len(call.positions)
             /\ Len(out.density) = Len(call.positions)

\* C4 witness: a call with mismatched shapes has raised the assertion.
C4_Witness ==
    /\ out.status = "AssertionError"
    /\ Len(call.positions) # Len(call.directions)

\* C5 as stated: forward(positions) with the directions omitted returns for
\* every constructed model.
C5_DirectionsOptional ==
    (Done /\ call.directions = None) => out.status = "returned"

\* The row x is strictly inside the model's aabb.
StrictlyInside(x) ==
    \A i \in 1..num_dim :
        /\ FGt(x[i], aabb_min(model.aabb)[i])
        /\ FLt(x[i], aabb_max(model.aabb)[i])

\* C6 as stated: in bounded mode the density of a row not strictly inside
\* the aabb is exactly 0 whatever mlp_base outputs, and that of a row
\* strictly inside is density_activation of the first channel of mlp_base.
C6_DensityZeroOutside ==
    (out.status = "returned" /\ ~model.unbounded) =>
        \A r \in 1..Len(call.positions) :
            IF StrictlyInside(call.positions[r])
            THEN out.density[r] =
                     density_activation(
                         mlp_base(model.weights,
                                  normalize(call.positions[r], model.aabb))[1])
            ELSE IsZero(out.density[r])
====
